---- MODULE Spec2Model ----
(***************************************************************************)
(* Retrieval-and-insight engine of the AI Resume Summarizer & Career       *)
(* Navigator: src/src/rag_engine.py (class RAGEngine) and the Career Chat  *)
(* page of src/app.py that drives it.                                      *)
(*                                                                         *)
(* Numbers that are fractions in the program (embedding coordinates,       *)
(* distances, relevance scores) are kept in fixed point: the integer One   *)
(* stands for 1.0.                                                         *)
(***************************************************************************)
EXTENDS Integers, Sequences, FiniteSets, TLC

\* ---------------------------------------------------------------- bounds
SmallRows == 2
MaxN == 3
MaxHistory == 6
MaxRows == 2
MaxTurns == 1
MaxPageHistory == 3

\* ------------------------------------------------------ program constants
batch_size == 100
TopJobs == 15
ContextJobs == 10
ChatJobs == 5
HistoryWindow == 5
ResumeChars == 2000
SummaryChars == 500
SkillChars == 100
PageResumeChars == 1000
One == 25

None == "None"

\* Two processes on one ./chroma_db; the UI session holds the first one's engine.
Engines == {"e1", "e2"}
SessionEngine == "e1"

\* ------------------------------------------------------------ input data
\* A path is <<stem, extension>>; str.endswith('.csv') looks at the extension.
JobsCsv == <<"data/jobs", ".csv">>
ExtraCsv == <<"data/extra", ".csv">>
NotesTxt == <<"data/notes", ".txt">>
Paths == {JobsCsv, ExtraCsv, NotesTxt}

EndsWithCsv(file_path) == file_path[2] = ".csv"

\* The constructor's data_sources argument (default: the one jobs file).
SourceLists ==
    { <<JobsCsv>>, <<JobsCsv, ExtraCsv>>, <<NotesTxt, JobsCsv>> }

\* Job postings found in the files: the seven columns the engine reads.
Postings ==
    << [title |-> "Backend Engineer", skills |-> "python|django|postgres",
        experience |-> "2 - 5 yrs", role |-> "Programming & Design",
        farea |-> "IT Software", industry |-> "IT-Software", salary |-> "Not Disclosed"],
       [title |-> "Frontend Engineer", skills |-> "react|css|html",
        experience |-> "1 - 3 yrs", role |-> "Programming & Design",
        farea |-> "IT Software", industry |-> "IT-Software", salary |-> "3,00,000 - 5,00,000"],
       [title |-> "Backend Engineer", skills |-> "java|spring",
        experience |-> "5 - 10 yrs", role |-> "Programming & Design",
        farea |-> "IT Software", industry |-> "Banking", salary |-> "Not Disclosed"],
       [title |-> "Sales Executive", skills |-> "sales|crm",
        experience |-> "0 - 2 yrs", role |-> "Retail Sales",
        farea |-> "Sales", industry |-> "Retail", salary |-> "Not Disclosed"] >>

\* Row i (0-based) of a readable file.
RowAt(file_path, i) ==
    Postings[((i + (IF file_path = JobsCsv THEN 0 ELSE 2)) % Len(Postings)) + 1]

\* A file on disk: unreadable (missing, not parsable) or a table of nrows rows.
FileStates ==
    { [readable |-> FALSE, nrows |-> 0] } \cup
    { [readable |-> TRUE, nrows |-> n] : n \in {0, SmallRows, batch_size + 1} }

VARIABLES
    files,          \* file_path -> file on disk
    data_sources,   \* RAGEngine.data_sources
    GROQ_API_KEY,   \* whether the environment variable is set
    store,          \* ./chroma_db: the persistent store with 'job_database'
    eng,            \* engine -> the RAGEngine object of one process
    ret,            \* what the call just made returned
    resume_text,    \* st.session_state.resume_text
    chat_history,   \* st.session_state.chat_history
    call,           \* the insight/chat call in progress in the session
    helper          \* helper.py's global client and the session's mode flags

vars == <<files, data_sources, GROQ_API_KEY, store, eng, ret,
          resume_text, chat_history, call, helper>>

indexVars == <<files, data_sources, GROQ_API_KEY, store, eng>>
sessionVars == <<resume_text, chat_history, call, helper>>

\* --------------------------------------------------------- dataset loader
\* pd.read_csv(file_path) with the source_file column added: n rows.
FileRows(file_path, n) ==
    [k \in 1..n |-> [posting |-> RowAt(file_path, k - 1), source_file |-> file_path]]

\* Whether the loop body appends a dataframe for file_path.
Loads(fs, file_path) == EndsWithCsv(file_path) /\ fs[file_path].readable

RECURSIVE Dataframes(_, _, _)
\* The list 'dataframes' after the loop over sources[k..].
Dataframes(fs, sources, k) ==
    IF k > Len(sources) THEN <<>>
    ELSE (IF Loads(fs, sources[k])
            THEN << FileRows(sources[k], fs[sources[k]].nrows) >>
            ELSE <<>>)
         \o Dataframes(fs, sources, k + 1)

RECURSIVE Concat(_)
\* pd.concat(dataframes, ignore_index=True): row idx is the position, 0-based.
Concat(dfs) == IF dfs = <<>> THEN <<>> ELSE Head(dfs) \o Concat(Tail(dfs))

\* A variant that gives up as soon as one listed source cannot be loaded.
LoadMultipleFilesFailFast(fs, sources) ==
    LET dataframes == Dataframes(fs, sources, 1)
    IN  IF \E k \in 1..Len(sources) : ~Loads(fs, sources[k])
          THEN [raised |-> TRUE, rows |-> <<>>]
          ELSE [raised |-> FALSE, rows |-> Concat(dataframes)]

\* _load_multiple_files: raises ValueError when nothing was loaded, else
\* returns the concatenated table.
LoadMultipleFiles(fs, sources) ==
    LET dataframes == Dataframes(fs, sources, 1)
    IN  IF dataframes = <<>> THEN [raised |-> TRUE, rows |-> <<>>]
        ELSE [raised |-> FALSE, rows |-> Concat(dataframes)]

\* Number of pd.read_csv calls made by the loop.
ReadCalls(sources) == Cardinality({k \in 1..Len(sources) : EndsWithCsv(sources[k])})

\* ------------------------------------------------------- document encoder
\* A variant that also writes the row's source file into the document.
DocTextWithSource(row) ==
    << "Job Title:", row.posting.title, "Key Skills:", row.posting.skills,
       "Experience Required:", row.posting.experience,
       "Role Category:", row.posting.role,
       "Functional Area:", row.posting.farea,
       "Industry:", row.posting.industry, "Salary:", row.posting.salary >>
    \o (IF "source_file" \in DOMAIN row THEN <<row.source_file[1]>> ELSE <<>>)

\* The document text of a row: the fixed template filled with seven fields.
DocText(row) ==
    << "Job Title:", row.posting.title, "Key Skills:", row.posting.skills,
       "Experience Required:", row.posting.experience,
       "Role Category:", row.posting.role,
       "Functional Area:", row.posting.farea,
       "Industry:", row.posting.industry, "Salary:", row.posting.salary >>

Metadata(row) ==
    [job_title |-> row.posting.title, skills |-> row.posting.skills,
     experience |-> row.posting.experience, role_category |-> row.posting.role,
     industry |-> row.posting.industry, salary |-> row.posting.salary]

JobId(idx) == <<"job_", idx>>

\* ----------------------------------------------------------- vector index
EmptyStore == [exists |-> FALSE, entries |-> <<>>]

\* A text is a sequence of fragments; concatenation is \o.
Queries == { <<"I know python and django">>, <<"pastry chef">>, <<>> }

\* The embedding model: text -> unit vector (length One = 25 in fixed point,
\* coordinates in units of 1/5).  Texts about the same subject lie close.
Embed(text) ==
    CASE text = DocText([posting |-> Postings[1]]) -> <<5, 0>>
      [] text = DocText([posting |-> Postings[2]]) -> <<3, 4>>
      [] text = DocText([posting |-> Postings[3]]) -> <<4, 3>>
      [] text = DocText([posting |-> Postings[4]]) -> <<-5, 0>>
      [] text = <<"I know python and django">> -> <<5, 0>>
      [] text = <<"pastry chef">> -> <<0, -5>>
      [] text = <<" ", "pastry chef", " ">> -> <<0, -5>>   \* the tokenizer drops outer blanks
      [] text # <<>> /\ text[1] = "Skills: python, django. Experience Level: mid" ->
            IF text[Len(text)] = "Which frontend skills should I learn?"
              THEN <<4, 3>> ELSE <<5, 0>>
      [] text # <<>> /\ text[1] = "Skills: sales. Experience Level: junior" -> <<-4, -3>>
      [] OTHER -> <<0, 5>>

\* The collection's metric: create_collection names none, so squared L2.
Distance(u, v) ==
    ((u[1] - v[1]) * (u[1] - v[1])) + ((u[2] - v[2]) * (u[2] - v[2]))

\* A variant that ranks the farthest entry first.
LeastIsGreatest(D) == CHOOSE x \in D : \A y \in D : y <= x

\* The smallest number of a non-empty set of numbers.
Least(D) == CHOOSE x \in D : \A y \in D : x <= y

RECURSIVE Nearest(_, _, _)
\* The n nearest positions among S, nearest first; d[k] is the distance of
\* position k.  Which of several equally distant entries comes first is the
\* index's choice.
Nearest(d, S, n) ==
    IF n = 0 \/ S = {} THEN <<>>
    ELSE LET dmin == Least({d[k] : k \in S})
             m == CHOOSE k \in S : d[k] = dmin
         IN  <<m>> \o Nearest(d, S \ {m}, n - 1)

\* collection.query(query_texts=[query], n_results=n): the response's
\* metadatas[0] and distances[0], nearest first, at most n and at most count.
IndexQuery(entries, query, n) ==
    LET q == Embed(query)
        d == [k \in DOMAIN entries |-> Distance(q, Embed(entries[k].document))]
        order == Nearest(d, DOMAIN entries, n)
    IN  [metadatas |-> [r \in DOMAIN order |-> entries[order[r]].metadata],
         distances |-> [r \in DOMAIN order |-> d[order[r]]],
         ids |-> [r \in DOMAIN order |-> entries[order[r]].id]]

\* ------------------------------------------------- RAGEngine: construction
\* self.jobs_df is None or a table of rows.
NoneDf == [is_none |-> TRUE, rows |-> <<>>]
DataFrame(rows) == [is_none |-> FALSE, rows |-> rows]

Down == [pc |-> "down", collection |-> None, jobs_df |-> NoneDf,
         client_groq |-> None, i |-> 0,
         found |-> FALSE,   \* "Loaded existing job database" was printed
         nReads |-> 0,      \* pd.read_csv calls made by this initialisation
         nAdds |-> 0,       \* collection.add calls made by this initialisation
         error |-> "none"]  \* the exception that ended the constructor

NoRet == [op |-> "none"]

\* helper.py's module state and the flags test_app.py keeps in the session.
NoClient == [is_none |-> TRUE, key |-> ""]
HelperStart == [client |-> NoClient, demo_mode |-> FALSE, api_key_set |-> FALSE]

\* RAGEngine.__init__ up to the call of _initialize_vector_store.
Construct(e) ==
    /\ eng[e].pc = "down"
    /\ eng' = [eng EXCEPT ![e] =
                 [Down EXCEPT !.pc = "init",
                              !.client_groq = IF GROQ_API_KEY THEN "Groq" ELSE None]]
    /\ ret' = NoRet
    /\ UNCHANGED <<files, data_sources, GROQ_API_KEY, store, sessionVars>>

\* A variant that never looks for the existing collection and always builds.
InitializeVectorStoreAlwaysBuild(e) ==
    /\ eng[e].pc = "init"
    /\ eng' = [eng EXCEPT ![e].pc = "load"]
    /\ ret' = NoRet
    /\ UNCHANGED <<files, data_sources, GROQ_API_KEY, store, sessionVars>>

\* A variant serialised by a build-time lock: it waits while another engine
\* is between get_collection and the end of its build.
InitializeVectorStoreLocked(e) ==
    /\ eng[e].pc = "init"
    /\ \A o \in Engines \ {e} : eng[o].pc \notin {"load", "create", "batch"}
    /\ eng' = [eng EXCEPT ![e] =
                 IF store.exists
                   THEN [@ EXCEPT !.pc = "ready", !.collection = "job_database",
                                  !.found = TRUE]
                   ELSE [@ EXCEPT !.pc = "load"]]
    /\ ret' = NoRet
    /\ UNCHANGED <<files, data_sources, GROQ_API_KEY, store, sessionVars>>

\* _initialize_vector_store: get_collection succeeds iff the collection
\* exists; otherwise the except branch enters _create_vector_store.
InitializeVectorStore(e) ==
    /\ eng[e].pc = "init"
    /\ eng' = [eng EXCEPT ![e] =
                 IF store.exists
                   THEN [@ EXCEPT !.pc = "ready", !.collection = "job_database",
                                  !.found = TRUE]
                   ELSE [@ EXCEPT !.pc = "load"]]
    /\ ret' = NoRet
    /\ UNCHANGED <<files, data_sources, GROQ_API_KEY, store, sessionVars>>

\* _create_vector_store, first statement: self.jobs_df = self._load_multiple_files()
CreateLoad(e) ==
    /\ eng[e].pc = "load"
    /\ LET df == LoadMultipleFiles(files, data_sources)
       IN  eng' = [eng EXCEPT ![e] =
                     IF df.raised
                       THEN [@ EXCEPT !.pc = "failed", !.error = "ValueError",
                                      !.nReads = ReadCalls(data_sources)]
                       ELSE [@ EXCEPT !.pc = "create", !.jobs_df = DataFrame(df.rows),
                                      !.nReads = ReadCalls(data_sources)]]
    /\ ret' = NoRet
    /\ UNCHANGED <<files, data_sources, GROQ_API_KEY, store, sessionVars>>

\* client.create_collection(name="job_database"): raises when it exists.
CreateCollection(e) ==
    /\ eng[e].pc = "create"
    /\ IF store.exists
         THEN /\ eng' = [eng EXCEPT ![e].pc = "failed", ![e].error = "exists"]
              /\ UNCHANGED store
         ELSE /\ store' = [exists |-> TRUE, entries |-> <<>>]
              /\ eng' = [eng EXCEPT ![e].pc = "batch", ![e].collection = "job_database",
                                    ![e].i = 0]
    /\ ret' = NoRet
    /\ UNCHANGED <<files, data_sources, GROQ_API_KEY, sessionVars>>

Min(a, b) == IF a < b THEN a ELSE b

\* A variant that numbers the ids within each batch.
BatchLocalIds(jobs_df, i) ==
    [k \in 1..(Min(i + batch_size, Len(jobs_df)) - i) |->
        [id |-> JobId(k - 1),
         document |-> DocText(jobs_df[i + k]),
         metadata |-> Metadata(jobs_df[i + k])]]

\* The entries built from rows i .. i+batch_size-1 of jobs_df (idx 0-based).
Batch(jobs_df, i) ==
    [k \in 1..(Min(i + batch_size, Len(jobs_df)) - i) |->
        [id |-> JobId(i + k - 1),
         document |-> DocText(jobs_df[i + k]),
         metadata |-> Metadata(jobs_df[i + k])]]

\* One iteration of the batch loop: collection.add(...) of one batch.
AddBatch(e) ==
    /\ eng[e].pc = "batch"
    /\ eng[e].i < Len(eng[e].jobs_df.rows)
    /\ store.exists
    /\ store' = [store EXCEPT !.entries = @ \o Batch(eng[e].jobs_df.rows, eng[e].i)]
    /\ eng' = [eng EXCEPT ![e].i = @ + batch_size, ![e].nAdds = @ + 1]
    /\ ret' = NoRet
    /\ UNCHANGED <<files, data_sources, GROQ_API_KEY, sessionVars>>

\* The batch loop ends: _create_vector_store and the constructor return.
CreateDone(e) ==
    /\ eng[e].pc = "batch"
    /\ eng[e].i >= Len(eng[e].jobs_df.rows)
    /\ eng' = [eng EXCEPT ![e].pc = "ready"]
    /\ ret' = NoRet
    /\ UNCHANGED <<files, data_sources, GROQ_API_KEY, store, sessionVars>>

\* The process ends (normal exit, uncaught exception, kill) at any point;
\* the store on disk stays as it is.
Stop(e) ==
    /\ eng[e].pc # "down"
    /\ call.pc = "idle" \/ e # SessionEngine
    /\ eng' = [eng EXCEPT ![e] = Down]
    /\ ret' = NoRet
    /\ UNCHANGED <<files, data_sources, GROQ_API_KEY, store, sessionVars>>

\* --------------------------------------------------------------- retriever
\* A variant that keeps only the first result of each job title.
RelevantJobsDedup(results) ==
    LET keep == { r \in DOMAIN results.metadatas :
                    \A p \in 1..(r - 1) :
                       results.metadatas[p].job_title # results.metadatas[r].job_title }
        pos == [k \in 1..Cardinality(keep) |->
                  CHOOSE r \in keep : Cardinality({p \in keep : p < r}) = k - 1]
    IN  [k \in DOMAIN pos |->
           [job_title |-> results.metadatas[pos[k]].job_title,
            skills |-> results.metadatas[pos[k]].skills,
            experience |-> results.metadatas[pos[k]].experience,
            role_category |-> results.metadatas[pos[k]].role_category,
            industry |-> results.metadatas[pos[k]].industry,
            salary |-> results.metadatas[pos[k]].salary,
            relevance_score |-> One - results.distances[pos[k]]]]

\* The list built by search_relevant_jobs from the index's response.
RelevantJobs(results) ==
    [r \in DOMAIN results.metadatas |->
        [job_title |-> results.metadatas[r].job_title,
         skills |-> results.metadatas[r].skills,
         experience |-> results.metadatas[r].experience,
         role_category |-> results.metadatas[r].role_category,
         industry |-> results.metadatas[r].industry,
         salary |-> results.metadatas[r].salary,
         relevance_score |-> One - results.distances[r]]]

\* A variant that ignores its n_results argument and asks for the default 10.
SearchRelevantJobsDefaultN(e, query, n_results) ==
    /\ eng[e].pc = "ready"
    /\ call.pc = "idle"
    /\ LET results == IndexQuery(store.entries, query, 10)
       IN  ret' = [op |-> "search", query |-> query, n_results |-> n_results,
                   query_texts |-> <<query>>,   \* what collection.query was given
                   results |-> results, value |-> RelevantJobs(results)]
    /\ UNCHANGED <<indexVars, sessionVars>>

\* search_relevant_jobs(query, n_results) called on a constructed engine.
SearchRelevantJobs(e, query, n_results) ==
    /\ eng[e].pc = "ready"
    /\ call.pc = "idle"
    /\ LET results == IndexQuery(store.entries, query, n_results)
       IN  ret' = [op |-> "search", query |-> query, n_results |-> n_results,
                   query_texts |-> <<query>>,   \* what collection.query was given
                   results |-> results, value |-> RelevantJobs(results)]
    /\ UNCHANGED <<indexVars, sessionVars>>

\* ------------------------------------------------------------ the session
\* An optional text: None, or a text (a sequence of fragments).
NoneText == [is_none |-> TRUE, text |-> <<>>]
Text(t) == [is_none |-> FALSE, text |-> t]
\* Python truthiness of an optional text: None and '' are false.
Truthy(x) == ~x.is_none /\ x.text # <<>>
\* x or default
OrElse(x, default) == IF Truthy(x) THEN x.text ELSE default

\* No generation request of that kind has been sent.
NoPrompt == [template |-> "none"]

Idle == [pc |-> "idle", op |-> "none", user_query |-> NoneText,
         skills_analysis |-> <<>>, relevant_jobs |-> <<>>, insights |-> <<>>,
         conversation |-> <<>>, has_conversation |-> FALSE,
         sent |-> <<>>, failed_at |-> "none",
         steps |-> <<>>,        \* generation calls and retrievals made, in order
         requested |-> 0,       \* n_results asked of the retriever
         skills_prompt |-> NoPrompt, insights_prompt |-> NoPrompt,
         chat_prompt |-> NoPrompt]

\* Python's seq[:k] on a list.
Take(seq, k) == SubSeq(seq, 1, Min(k, Len(seq)))

\* Python's s[:k] on a str.
StrTake(str, k) == IF Len(str) <= k THEN str ELSE SubSeq(str, 1, k)

RECURSIVE TakeChars(_, _)
\* Python's text[:k] on a text held as fragments: its first k characters.
TakeChars(text, k) ==
    IF text = <<>> \/ k = 0 THEN <<>>
    ELSE IF Len(Head(text)) <= k
           THEN <<Head(text)>> \o TakeChars(Tail(text), k - Len(Head(text)))
           ELSE <<SubSeq(Head(text), 1, k)>>

\* A variant that puts the whole resume into the extraction prompt.
SkillsPromptWholeResume(resume) ==
    [template |-> "skills", resume |-> resume]

\* skills_prompt, lines 152-162: the fixed text with resume_text[:2000].
SkillsPrompt(resume) ==
    [template |-> "skills", resume |-> TakeChars(resume, ResumeChars)]

\* A variant that builds the context block from every retrieved posting.
JobsContextAll(relevant_jobs) ==
    [k \in DOMAIN relevant_jobs |->
       [job_title |-> relevant_jobs[k].job_title, skills |-> relevant_jobs[k].skills,
        experience |-> relevant_jobs[k].experience, industry |-> relevant_jobs[k].industry]]

\* jobs_context, lines 177-180: one line per posting of relevant_jobs[:10].
JobsContext(relevant_jobs) ==
    LET top == Take(relevant_jobs, ContextJobs)
    IN  [k \in DOMAIN top |->
           [job_title |-> top[k].job_title, skills |-> top[k].skills,
            experience |-> top[k].experience, industry |-> top[k].industry]]

\* insights_prompt, lines 182-200.
InsightsPrompt(skills_analysis, relevant_jobs, user_query) ==
    [template |-> "insights",
     resume_analysis |-> skills_analysis,
     jobs_context |-> JobsContext(relevant_jobs),
     user_query |-> OrElse(user_query, <<"General career guidance">>)]

\* chat_prompt, lines 228-243.
ChatPrompt(skills_analysis, relevant_jobs, conversation, user_message) ==
    LET top == Take(relevant_jobs, ChatJobs)
    IN  [template |-> "chat",
         resume_summary |-> TakeChars(skills_analysis, SummaryChars),
         jobs |-> [k \in DOMAIN top |->
                     [job_title |-> top[k].job_title,
                      skills |-> StrTake(top[k].skills, SkillChars)]],
         conversation |-> conversation,
         user_question |-> user_message]

\* The call record after the generation request of the given kind was sent.
Sending(c, template) ==
    LET c1 == [c EXCEPT !.sent = Append(@, template), !.steps = Append(@, template)]
    IN  CASE template = "skills" ->
               [c1 EXCEPT !.skills_prompt = SkillsPrompt(resume_text.text)]
          [] template = "insights" ->
               [c1 EXCEPT !.insights_prompt =
                    InsightsPrompt(c.skills_analysis, c.relevant_jobs, c.user_query)]
          [] template = "chat" ->
               [c1 EXCEPT !.chat_prompt =
                    ChatPrompt(c.skills_analysis, c.relevant_jobs, c.conversation,
                               c.user_query.text)]

\* What the user types into the chat box.
Messages == { <<"What salary can I expect?">>, <<"Which frontend skills should I learn?">> }

\* What the generation service answers (message.content.strip()).
SkillsAnswers == { <<"Skills: python, django. Experience Level: mid">>,
                   <<"Skills: sales. Experience Level: junior">> }
InsightsAnswers == { <<"1. Career progression: senior backend engineer">> }
ChatAnswers == { <<"You can expect a mid-level salary.">> }

\* app.py, Resume Analysis page: get_career_insights(resume_text) is called.
AnalyzeResume ==
    /\ call.pc = "idle"
    /\ eng[SessionEngine].pc = "ready"
    /\ Truthy(resume_text)
    /\ call' = [Idle EXCEPT !.pc = "skills", !.op = "insights"]
    /\ ret' = NoRet
    /\ UNCHANGED <<indexVars, resume_text, chat_history, helper>>

\* app.py, Career Chat page: the chat input appends the user's message and
\* calls chat_with_career_advisor(resume_text, chat_history, prompt), which
\* begins with get_career_insights(resume_text, user_message).
ChatInput(prompt) ==
    /\ call.pc = "idle"
    /\ eng[SessionEngine].pc = "ready"
    /\ Truthy(resume_text)
    /\ Len(chat_history) < MaxHistory
    /\ chat_history' = Append(chat_history, [role |-> "user", content |-> prompt])
    /\ call' = [Idle EXCEPT !.pc = "skills", !.op = "chat", !.user_query = Text(prompt)]
    /\ ret' = NoRet
    /\ UNCHANGED <<indexVars, resume_text, helper>>

\* self.client_groq.chat.completions.create(...) raises: there is no client
\* (AttributeError on None) or the service fails.  Nothing catches it in
\* rag_engine.py, so the exception leaves the call.
GenerationRaises(template) ==
    /\ call' = [(IF eng[SessionEngine].client_groq = None
                   THEN call ELSE Sending(call, template))
                 EXCEPT !.pc = "raised", !.failed_at = template]
    /\ ret' = [op |-> call.op, raised |-> TRUE]
    /\ UNCHANGED <<indexVars, resume_text, chat_history, helper>>

\* get_career_insights, lines 152-170: the skills-extraction call succeeds.
SkillsGenerated(answer) ==
    /\ call.pc = "skills"
    /\ eng[SessionEngine].client_groq # None
    /\ call' = [Sending(call, "skills") EXCEPT !.pc = "search", !.skills_analysis = answer]
    /\ ret' = NoRet
    /\ UNCHANGED <<indexVars, resume_text, chat_history, helper>>

SkillsFailed ==
    /\ call.pc = "skills"
    /\ GenerationRaises("skills")

\* A variant whose retrieval releases the engine's collection handle after use.
SearchStepReleasingCollection ==
    /\ call.pc = "search"
    /\ LET search_query == call.skills_analysis \o <<" ">> \o OrElse(call.user_query, <<>>)
           results == IndexQuery(store.entries, search_query, TopJobs)
       IN  call' = [call EXCEPT !.pc = "insights", !.relevant_jobs = RelevantJobs(results),
                                !.requested = TopJobs, !.steps = Append(@, "search")]
    /\ ret' = NoRet
    /\ eng' = [eng EXCEPT ![SessionEngine].collection = None]
    /\ UNCHANGED <<files, data_sources, GROQ_API_KEY, store, resume_text, chat_history, helper>>

\* get_career_insights, lines 172-174: retrieval of the top 15 postings.
SearchStep ==
    /\ call.pc = "search"
    /\ LET search_query == call.skills_analysis \o <<" ">> \o OrElse(call.user_query, <<>>)
           results == IndexQuery(store.entries, search_query, TopJobs)
       IN  call' = [call EXCEPT !.pc = "insights", !.relevant_jobs = RelevantJobs(results),
                                !.requested = TopJobs, !.steps = Append(@, "search")]
    /\ ret' = NoRet
    /\ UNCHANGED <<indexVars, resume_text, chat_history, helper>>

\* get_career_insights, lines 176-214: the insights call succeeds and the
\* dict is returned (to the page, or to chat_with_career_advisor).
InsightsGenerated(answer) ==
    /\ call.pc = "insights"
    /\ eng[SessionEngine].client_groq # None
    /\ call' = [Sending(call, "insights") EXCEPT
                    !.pc = IF call.op = "chat" THEN "conversation" ELSE "returned",
                    !.insights = answer]
    /\ ret' = IF call.op = "chat" THEN NoRet
              ELSE [op |-> "insights", raised |-> FALSE,
                    value |-> [insights |-> answer,
                               relevant_jobs |-> call.relevant_jobs,
                               skills_analysis |-> call.skills_analysis]]
    /\ UNCHANGED <<indexVars, resume_text, chat_history, helper>>

InsightsFailed ==
    /\ call.pc = "insights"
    /\ GenerationRaises("insights")

\* A variant slicing seq[:k], the first k elements.
SliceFirst(seq, k) ==
    SubSeq(seq, 1, Min(k, Len(seq)))

\* Python's seq[-k:] for k >= 1: the last k elements, or all when fewer.
SliceLast(seq, k) ==
    LET start == IF Len(seq) - k < 0 THEN 0 ELSE Len(seq) - k
    IN  SubSeq(seq, start + 1, Len(seq))

\* The transcript: one "Speaker: content" line per entry of chat_history[-5:].
Conversation(history) ==
    LET recent == SliceLast(history, HistoryWindow)
    IN  [k \in DOMAIN recent |->
           [speaker |-> IF recent[k].role = "user" THEN "User" ELSE "Assistant",
            content |-> recent[k].content]]

\* A variant that trims the caller's list to the window while reading it.
BuildConversationTrimming ==
    /\ call.pc = "conversation"
    /\ call' = [call EXCEPT !.pc = "chatgen",
                            !.conversation = Conversation(chat_history),
                            !.has_conversation = TRUE]
    /\ chat_history' = SliceLast(chat_history, HistoryWindow)
    /\ ret' = NoRet
    /\ UNCHANGED <<indexVars, resume_text, helper>>

\* chat_with_career_advisor, lines 222-226.
BuildConversation ==
    /\ call.pc = "conversation"
    /\ call' = [call EXCEPT !.pc = "chatgen",
                            !.conversation = Conversation(chat_history),
                            !.has_conversation = TRUE]
    /\ ret' = NoRet
    /\ UNCHANGED <<indexVars, resume_text, chat_history, helper>>

\* chat_with_career_advisor, lines 228-253: the chat call succeeds.
ChatGenerated(answer) ==
    /\ call.pc = "chatgen"
    /\ eng[SessionEngine].client_groq # None
    /\ call' = [Sending(call, "chat") EXCEPT !.pc = "returned"]
    /\ ret' = [op |-> "chat", raised |-> FALSE, value |-> answer]
    /\ UNCHANGED <<indexVars, resume_text, chat_history, helper>>

ChatFailed ==
    /\ call.pc = "chatgen"
    /\ GenerationRaises("chat")

\* The caller after the call returned: app.py line 159 appends the reply to
\* the history; the Resume Analysis page only displays the dict.
CallerAfterReturn ==
    /\ call.pc = "returned"
    /\ chat_history' = IF call.op = "chat"
                         THEN Append(chat_history, [role |-> "assistant", content |-> ret.value])
                         ELSE chat_history
    /\ call' = Idle
    /\ ret' = NoRet
    /\ UNCHANGED <<indexVars, resume_text, helper>>

\* The caller after the call raised: the page run ends with the exception
\* shown; nothing is appended.
CallerAfterRaise ==
    /\ call.pc = "raised"
    /\ call' = Idle
    /\ ret' = NoRet
    /\ UNCHANGED <<indexVars, resume_text, chat_history, helper>>

\* ---------------------------------------------------------- specification
\* The combined dataset the files hold for the engine's sources.
Dataset == LoadMultipleFiles(files, data_sources)

\* Engines start against an empty ./chroma_db; the files do not change.
Init ==
    /\ files \in { f \in [Paths -> FileStates] :
                     /\ f[NotesTxt] = [readable |-> TRUE, nrows |-> SmallRows]
                     /\ f[ExtraCsv].nrows \in {0, SmallRows}
                     /\ f[ExtraCsv].readable = (f[ExtraCsv].nrows > 0) }
    /\ data_sources \in SourceLists
    /\ GROQ_API_KEY = TRUE
    /\ store = EmptyStore
    /\ eng = [e \in Engines |-> Down]
    /\ ret = NoRet
    /\ resume_text = NoneText
    /\ chat_history = <<>>
    /\ call = Idle
    /\ helper = HelperStart

Next ==
    \/ \E e \in Engines : Construct(e)
    \/ \E e \in Engines : InitializeVectorStore(e)
    \/ \E e \in Engines : CreateLoad(e)
    \/ \E e \in Engines : CreateCollection(e)
    \/ \E e \in Engines : AddBatch(e)
    \/ \E e \in Engines : CreateDone(e)
    \/ \E e \in Engines : Stop(e)
    \/ \E query \in Queries, n_results \in 1..MaxN :
          SearchRelevantJobs(SessionEngine, query, n_results)

Spec == Init /\ [][Next]_vars

\* One process at a time: the session's engine is started, stopped and
\* started again on the same store; no second process exists.
\* Queries that are the document text of a posting.
DocumentQueries == { DocText([posting |-> Postings[p]]) : p \in DOMAIN Postings }

NextSeq ==
    \/ Construct(SessionEngine)
    \/ InitializeVectorStore(SessionEngine)
    \/ CreateLoad(SessionEngine)
    \/ CreateCollection(SessionEngine)
    \/ AddBatch(SessionEngine)
    \/ CreateDone(SessionEngine)
    \/ Stop(SessionEngine)
    \/ \E query \in Queries, n_results \in 1..MaxN :
          SearchRelevantJobs(SessionEngine, query, n_results)
    \/ \E query \in DocumentQueries :
          SearchRelevantJobs(SessionEngine, query, 1)

SpecSeq == Init /\ [][NextSeq]_vars

RECURSIVE AllBatches(_, _)
\* The entries a completed build leaves in the collection.
AllBatches(rows, i) ==
    IF i >= Len(rows) THEN <<>> ELSE Batch(rows, i) \o AllBatches(rows, i + batch_size)

Resumes == { <<"Python developer, 4 years, Django and PostgreSQL">> }

\* A UI session whose engine started on a store that an earlier start built.
InitChat ==
    /\ files \in { f \in [Paths -> FileStates] :
                     /\ f[NotesTxt] = [readable |-> TRUE, nrows |-> SmallRows]
                     /\ f[ExtraCsv] = [readable |-> TRUE, nrows |-> SmallRows]
                     /\ f[JobsCsv].readable
                     /\ f[JobsCsv].nrows > 0 }
    /\ data_sources = <<JobsCsv, ExtraCsv>>
    /\ GROQ_API_KEY \in BOOLEAN
    /\ store = [exists |-> TRUE, entries |-> AllBatches(Dataset.rows, 0)]
    /\ eng = [e \in Engines |->
                IF e = SessionEngine
                  THEN [Down EXCEPT !.pc = "ready", !.collection = "job_database",
                                    !.found = TRUE,
                                    !.client_groq = IF GROQ_API_KEY THEN "Groq" ELSE None]
                  ELSE Down]
    /\ ret = NoRet
    /\ resume_text \in { Text(r) : r \in Resumes }
    /\ chat_history = <<>>
    /\ call = Idle
    /\ helper = HelperStart

\* The Job Search page's query in the same session.
SessionQueries == { <<"I know python and django">>, <<" ", "pastry chef", " ">> }

NextChat ==
    \/ AnalyzeResume
    \/ \E prompt \in Messages : ChatInput(prompt)
    \/ \E answer \in SkillsAnswers : SkillsGenerated(answer)
    \/ SkillsFailed
    \/ SearchStep
    \/ \E answer \in InsightsAnswers : InsightsGenerated(answer)
    \/ InsightsFailed
    \/ BuildConversation
    \/ \E answer \in ChatAnswers : ChatGenerated(answer)
    \/ ChatFailed
    \/ CallerAfterReturn
    \/ CallerAfterRaise
    \/ \E query \in SessionQueries :
          SearchRelevantJobs(SessionEngine, query, MaxN)

SpecChat == InitChat /\ [][NextChat]_vars

RECURSIVE Repeat(_, _)
\* The string str written n times.
Repeat(str, n) ==
    IF n = 0 THEN ""
    ELSE LET half == Repeat(str, n \div 2)
         IN  IF n % 2 = 0 THEN half \o half ELSE (half \o half) \o str

\* Resumes longer than the excerpt: the first two agree on their first 2000
\* characters (1990 in the first fragment, 10 at the start of the second) and
\* differ after; the third differs from them within the first 2000.
LongResumes ==
    { << Repeat("0123456789", 199), "-referees: A. Rao, B. Sen" >>,
      << Repeat("0123456789", 199), "-referees: none given" >>,
      << Repeat("9876543210", 199), "-referees: A. Rao, B. Sen" >> }

\* The Resume Analysis page of a session with any of the resumes uploaded.
InitInsights ==
    /\ files \in { f \in [Paths -> FileStates] :
                     /\ f[NotesTxt] = [readable |-> TRUE, nrows |-> SmallRows]
                     /\ f[ExtraCsv] = [readable |-> TRUE, nrows |-> SmallRows]
                     /\ f[JobsCsv].readable
                     /\ f[JobsCsv].nrows > 0 }
    /\ data_sources = <<JobsCsv, ExtraCsv>>
    /\ GROQ_API_KEY \in BOOLEAN
    /\ store = [exists |-> TRUE, entries |-> AllBatches(Dataset.rows, 0)]
    /\ eng = [e \in Engines |->
                IF e = SessionEngine
                  THEN [Down EXCEPT !.pc = "ready", !.collection = "job_database",
                                    !.found = TRUE,
                                    !.client_groq = IF GROQ_API_KEY THEN "Groq" ELSE None]
                  ELSE Down]
    /\ ret = NoRet
    /\ resume_text \in { Text(r) : r \in Resumes \cup LongResumes }
    /\ chat_history = <<>>
    /\ call = Idle
    /\ helper = HelperStart

NextInsights ==
    \/ AnalyzeResume
    \/ \E answer \in SkillsAnswers : SkillsGenerated(answer)
    \/ SkillsFailed
    \/ SearchStep
    \/ \E answer \in InsightsAnswers : InsightsGenerated(answer)
    \/ InsightsFailed
    \/ CallerAfterReturn
    \/ CallerAfterRaise

SpecInsights == InitInsights /\ [][NextInsights]_vars

\* ------------------------------------------------------- the pages of app.py
\* The PDF in the uploader: one fitz cannot open, or one with its text.
Pdfs ==
    { [readable |-> FALSE, text |-> <<>>],
      [readable |-> TRUE, text |-> <<>>],      \* a scan: no extractable text
      [readable |-> TRUE, text |-> <<"Python developer, 4 years, Django and PostgreSQL">>],
      [readable |-> TRUE, text |-> <<"Sales lead, 6 years in retail">>] }

\* A variant that extracts whenever a file is in the uploader.
UploadResumeAlways(pdf) ==
    /\ call.pc = "idle"
    /\ resume_text' = IF pdf.readable THEN Text(pdf.text) ELSE resume_text
    /\ ret' = [op |-> "upload", pdf |-> pdf]
    /\ UNCHANGED <<indexVars, chat_history, call, helper>>

\* app.py lines 50-57, a script run with a file in the uploader: the text is
\* extracted only while resume_text is None; when fitz raises the run ends
\* and nothing is stored.
UploadResume(pdf) ==
    /\ call.pc = "idle"
    /\ resume_text' = IF resume_text.is_none /\ pdf.readable
                        THEN Text(pdf.text) ELSE resume_text
    /\ ret' = [op |-> "upload", pdf |-> pdf]
    /\ UNCHANGED <<indexVars, chat_history, call, helper>>

\* The prompts of the three quick-question buttons.
QuickQuestions ==
    { <<"What should be my salary expectations based on my profile?">>,
      <<"What are the best career growth opportunities for me?">>,
      <<"What skills should I focus on developing next?">> }

\* app.py lines 162-182, a quick-question button: the prompt is appended as
\* a user entry and the script is rerun; no reply is asked for.
QuickQuestion(prompt) ==
    /\ call.pc = "idle"
    /\ eng[SessionEngine].pc = "ready"
    /\ Truthy(resume_text)
    /\ Len(chat_history) < MaxPageHistory
    /\ chat_history' = Append(chat_history, [role |-> "user", content |-> prompt])
    /\ ret' = NoRet
    /\ UNCHANGED <<indexVars, resume_text, call, helper>>

\* A session of app.py from its first script run: no resume yet.
InitPages ==
    /\ files = [p \in Paths |-> [readable |-> TRUE, nrows |-> SmallRows]]
    /\ data_sources = <<JobsCsv, ExtraCsv>>
    /\ GROQ_API_KEY \in BOOLEAN
    /\ store = [exists |-> TRUE, entries |-> AllBatches(Dataset.rows, 0)]
    /\ eng = [e \in Engines |->
                IF e = SessionEngine
                  THEN [Down EXCEPT !.pc = "ready", !.collection = "job_database",
                                    !.found = TRUE,
                                    !.client_groq = IF GROQ_API_KEY THEN "Groq" ELSE None]
                  ELSE Down]
    /\ ret = NoRet
    /\ resume_text = NoneText
    /\ chat_history = <<>>
    /\ call = Idle
    /\ helper = HelperStart

NextPages ==
    \/ \E pdf \in Pdfs : UploadResume(pdf)
    \/ \E prompt \in QuickQuestions : QuickQuestion(prompt)
    \/ \E prompt \in Messages : Len(chat_history) < MaxPageHistory /\ ChatInput(prompt)
    \/ \E answer \in SkillsAnswers : SkillsGenerated(answer)
    \/ SkillsFailed
    \/ SearchStep
    \/ \E answer \in InsightsAnswers : InsightsGenerated(answer)
    \/ InsightsFailed
    \/ BuildConversation
    \/ \E answer \in ChatAnswers : ChatGenerated(answer)
    \/ ChatFailed
    \/ CallerAfterReturn
    \/ CallerAfterRaise

SpecPages == InitPages /\ [][NextPages]_vars

\* ------------------------------------------------------ career analytics
\* A cell of the jobs table: NaN (pd.isna), or the text str(value).
NaN == [is_na |-> TRUE, str |-> ""]
Cell(str) == [is_na |-> FALSE, str |-> str]

\* A number or None.
NoNumber == [is_none |-> TRUE, n |-> 0]
Number(n) == [is_none |-> FALSE, n |-> n]

Char(str, i) == SubSeq(str, i, i)

DigitChars == {"0", "1", "2", "3", "4", "5", "6", "7", "8", "9"}
WhitespaceChars == {" ", "\t", "\n"}
UpperToLower ==
    [A |-> "a", B |-> "b", C |-> "c", D |-> "d", E |-> "e", F |-> "f", G |-> "g",
     H |-> "h", I |-> "i", J |-> "j", K |-> "k", L |-> "l", M |-> "m", N |-> "n",
     O |-> "o", P |-> "p", Q |-> "q", R |-> "r", S |-> "s", T |-> "t", U |-> "u",
     V |-> "v", W |-> "w", X |-> "x", Y |-> "y", Z |-> "z"]

\* needle in str
Contains(str, needle) ==
    \E i \in 1..(Len(str) - Len(needle) + 1) : SubSeq(str, i, i + Len(needle) - 1) = needle

\* str.strip()
StrStrip(str) ==
    LET inked == { i \in 1..Len(str) : Char(str, i) \notin WhitespaceChars }
    IN  IF inked = {} THEN ""
        ELSE SubSeq(str, CHOOSE i \in inked : \A j \in inked : i <= j,
                         CHOOSE i \in inked : \A j \in inked : j <= i)

RECURSIVE StrLower(_)
\* str.lower()
StrLower(str) ==
    IF Len(str) = 0 THEN ""
    ELSE IF Len(str) = 1
           THEN (IF str \in DOMAIN UpperToLower THEN UpperToLower[str] ELSE str)
           ELSE LET half == Len(str) \div 2
                IN  StrLower(SubSeq(str, 1, half)) \o StrLower(SubSeq(str, half + 1, Len(str)))

\* The last position of the run of characters of the class that starts at i.
RunEnd(str, i, class) ==
    CHOOSE j \in i..Len(str) :
       /\ \A k \in i..j : Char(str, k) \in class
       /\ j = Len(str) \/ Char(str, j + 1) \notin class

RECURSIVE FindAll(_, _, _)
\* re.findall(r'[class]+', str) from position i on: the maximal runs, in order.
FindAll(str, i, class) ==
    IF i > Len(str) THEN <<>>
    ELSE IF Char(str, i) \in class
           THEN << SubSeq(str, i, RunEnd(str, i, class)) >>
                   \o FindAll(str, RunEnd(str, i, class) + 1, class)
           ELSE FindAll(str, i + 1, class)

RECURSIVE ReSplit(_, _, _, _)
\* re.split(r'[class]+', str): the pieces between the runs, the piece begun
\* at position b being scanned from position i; empty pieces at the ends stay.
ReSplit(str, i, b, class) ==
    IF i > Len(str) THEN << SubSeq(str, b, Len(str)) >>
    ELSE IF Char(str, i) \in class
           THEN << SubSeq(str, b, i - 1) >>
                   \o ReSplit(str, RunEnd(str, i, class) + 1, RunEnd(str, i, class) + 1, class)
           ELSE ReSplit(str, i + 1, b, class)

RECURSIVE WithoutCommas(_)
\* num.replace(',', '')
WithoutCommas(str) ==
    IF Len(str) = 0 THEN ""
    ELSE (IF Char(str, 1) = "," THEN "" ELSE Char(str, 1))
            \o WithoutCommas(SubSeq(str, 2, Len(str)))

DigitValue(c) ==
    CASE c = "0" -> 0 [] c = "1" -> 1 [] c = "2" -> 2 [] c = "3" -> 3 [] c = "4" -> 4
      [] c = "5" -> 5 [] c = "6" -> 6 [] c = "7" -> 7 [] c = "8" -> 8 [] c = "9" -> 9

RECURSIVE ParseInt(_)
\* int(str) of a non-empty string of digits.
ParseInt(str) ==
    IF Len(str) = 1 THEN DigitValue(str)
    ELSE (10 * ParseInt(SubSeq(str, 1, Len(str) - 1))) + DigitValue(Char(str, Len(str)))

RECURSIVE Sum(_)
Sum(values) == IF values = <<>> THEN 0 ELSE Head(values) + Sum(Tail(values))

\* sum(values) // len(values) for two or more values, else the only value.
MeanOrOnly(values) ==
    IF Len(values) >= 2 THEN Sum(values) \div Len(values) ELSE values[1]

\* A variant that lets int('') escape instead of catching it.
ExtractSalaryUncaught(salary_str) ==
    IF salary_str.is_na \/ Contains(salary_str.str, "Not Disclosed")
      THEN [raised |-> FALSE, value |-> NoNumber]
      ELSE LET numbers == FindAll(salary_str.str, 1, DigitChars \cup {","})
               plain   == [k \in DOMAIN numbers |-> WithoutCommas(numbers[k])]
           IN  IF numbers = <<>> THEN [raised |-> FALSE, value |-> NoNumber]
               ELSE IF \E k \in DOMAIN plain : plain[k] = ""
                      THEN [raised |-> TRUE, value |-> NoNumber]
                      ELSE [raised |-> FALSE,
                            value |-> Number(MeanOrOnly([k \in DOMAIN plain |-> ParseInt(plain[k])]))]

\* _extract_salary: int('') on a group of commas raises ValueError inside the
\* try, and the except returns None.
ExtractSalary(salary_str) ==
    IF salary_str.is_na \/ Contains(salary_str.str, "Not Disclosed")
      THEN [raised |-> FALSE, value |-> NoNumber]
      ELSE LET numbers == FindAll(salary_str.str, 1, DigitChars \cup {","})
               plain   == [k \in DOMAIN numbers |-> WithoutCommas(numbers[k])]
           IN  IF numbers = <<>> THEN [raised |-> FALSE, value |-> NoNumber]
               ELSE IF \E k \in DOMAIN plain : plain[k] = ""
                      THEN [raised |-> FALSE, value |-> NoNumber]
                      ELSE [raised |-> FALSE,
                            value |-> Number(MeanOrOnly([k \in DOMAIN plain |-> ParseInt(plain[k])]))]

\* _extract_experience
ExtractExperience(exp_str) ==
    IF exp_str.is_na THEN [raised |-> FALSE, value |-> NoNumber]
    ELSE LET numbers == FindAll(exp_str.str, 1, DigitChars)
         IN  IF numbers = <<>> THEN [raised |-> FALSE, value |-> NoNumber]
             ELSE [raised |-> FALSE,
                   value |-> Number(MeanOrOnly([k \in DOMAIN numbers |-> ParseInt(numbers[k])]))]

\* A variant that keeps the tokens' letter case.
ExtractSkillsKeepingCase(skills_str) ==
    IF skills_str.is_na THEN <<>>
    ELSE LET skills == ReSplit(skills_str.str, 1, 1, {"|", ",", ";"})
             kept   == SelectSeq(skills, LAMBDA skill : StrStrip(skill) # "")
         IN  [k \in DOMAIN kept |-> StrStrip(kept[k])]

\* _extract_skills
ExtractSkills(skills_str) ==
    IF skills_str.is_na THEN <<>>
    ELSE LET skills == ReSplit(skills_str.str, 1, 1, {"|", ",", ";"})
             kept   == SelectSeq(skills, LAMBDA skill : StrStrip(skill) # "")
         IN  [k \in DOMAIN kept |-> StrLower(StrStrip(kept[k]))]

\* Rows of data/jobs.csv as CareerAnalytics reads them: the three columns it
\* preprocesses.  The first four are the postings; the others carry anomalies.
RawRows ==
    { [salary |-> Cell(Postings[k].salary), experience |-> Cell(Postings[k].experience),
       skills |-> Cell(Postings[k].skills)] : k \in DOMAIN Postings }
    \cup
    { [salary |-> NaN, experience |-> NaN, skills |-> NaN],
      [salary |-> Cell("50000"), experience |-> Cell("3 yrs"),
       skills |-> Cell("Python| Django ,, REST API;")],
      [salary |-> Cell("5 Lacs, negotiable"), experience |-> Cell("Fresher"),
       skills |-> Cell(" ; |")],
      [salary |-> Cell("1,50,000 - 2,25,000 - 3,00,001 PA."), experience |-> Cell("1 - 2 - 4 yrs"),
       skills |-> Cell("|Team Lead\t, C++ ;SQL Server")],
      [salary |-> Cell("Negotiable"), experience |-> Cell("Not Disclosed"),
       skills |-> Cell("")] }

RECURSIVE Tables(_)
\* The tables of up to n rows.
Tables(n) ==
    IF n = 0 THEN { <<>> }
    ELSE Tables(n - 1) \cup { Append(t, r) : t \in { u \in Tables(n - 1) : Len(u) = n - 1 },
                                             r \in RawRows }

\* self._extract_salary(salary_str) on one cell.
CallExtractSalary(salary_str) ==
    /\ call.pc = "idle"
    /\ ret' = [op |-> "extract_salary", arg |-> salary_str,
               raised |-> ExtractSalary(salary_str).raised,
               value |-> ExtractSalary(salary_str).value]
    /\ UNCHANGED <<indexVars, sessionVars>>

\* self._extract_experience(exp_str) on one cell.
CallExtractExperience(exp_str) ==
    /\ call.pc = "idle"
    /\ ret' = [op |-> "extract_experience", arg |-> exp_str,
               raised |-> ExtractExperience(exp_str).raised,
               value |-> ExtractExperience(exp_str).value]
    /\ UNCHANGED <<indexVars, sessionVars>>

\* self._extract_skills(skills_str) on one cell.
CallExtractSkills(skills_str) ==
    /\ call.pc = "idle"
    /\ ret' = [op |-> "extract_skills", arg |-> skills_str, raised |-> FALSE,
               value |-> ExtractSkills(skills_str)]
    /\ UNCHANGED <<indexVars, sessionVars>>

\* CareerAnalytics.__init__: _preprocess_data applies the three helpers down
\* the columns; an exception of any of them would end the load.  It runs
\* once, as the object is constructed, before anything is called on it.
PreprocessData(jobs_df) ==
    /\ call.pc = "idle"
    /\ ret = NoRet
    /\ LET salary     == [k \in DOMAIN jobs_df |-> ExtractSalary(jobs_df[k].salary)]
           experience == [k \in DOMAIN jobs_df |-> ExtractExperience(jobs_df[k].experience)]
           failed     == \E k \in DOMAIN jobs_df : salary[k].raised \/ experience[k].raised
       IN  ret' = IF failed
                    THEN [op |-> "preprocess", jobs_df |-> jobs_df, raised |-> TRUE,
                          salary_clean |-> <<>>, experience_years |-> <<>>, skills_list |-> <<>>]
                    ELSE [op |-> "preprocess", jobs_df |-> jobs_df, raised |-> FALSE,
                          salary_clean |-> [k \in DOMAIN jobs_df |-> salary[k].value],
                          experience_years |-> [k \in DOMAIN jobs_df |-> experience[k].value],
                          skills_list |-> [k \in DOMAIN jobs_df |-> ExtractSkills(jobs_df[k].skills)]]
    /\ UNCHANGED <<indexVars, sessionVars>>

\* The analytics engine alone: nothing else of the application is running.
InitAnalytics ==
    /\ files = [p \in Paths |-> [readable |-> TRUE, nrows |-> SmallRows]]
    /\ data_sources = <<JobsCsv>>
    /\ GROQ_API_KEY = TRUE
    /\ store = EmptyStore
    /\ eng = [e \in Engines |-> Down]
    /\ ret = NoRet
    /\ resume_text = NoneText
    /\ chat_history = <<>>
    /\ call = Idle
    /\ helper = HelperStart

NextAnalytics ==
    \/ \E r \in RawRows : CallExtractSalary(r.salary)
    \/ \E r \in RawRows : CallExtractExperience(r.experience)
    \/ \E r \in RawRows : CallExtractSkills(r.skills)
    \/ \E jobs_df \in Tables(MaxRows) : PreprocessData(jobs_df)

SpecAnalytics == InitAnalytics /\ [][NextAnalytics]_vars

\* ---------------------------------------------------------------- helper.py
RECURSIVE Flat(_)
\* The characters of a text: its fragments written one after another.
Flat(text) == IF text = <<>> THEN "" ELSE Head(text) \o Flat(Tail(text))

Client(key) == [is_none |-> FALSE, key |-> key]

\* The api_key argument: None, or a string.
NoKey == [is_none |-> TRUE, str |-> ""]
Key(str) == [is_none |-> FALSE, str |-> str]

\* Keys: the one in the environment, one the service accepts, one it has
\* revoked, and three that fail the format test.
EnvKey == "gsk_" \o Repeat("e", 52)
WorkingKey == "gsk_" \o Repeat("k", 52)
RevokedKey == "gsk_" \o Repeat("r", 52)
SidebarKeys == { Key(WorkingKey), Key(RevokedKey), Key("gsk_tooShort"),
                 Key("sk-" \o Repeat("x", 60)), Key("gs") }

\* api_key.startswith(prefix)
StartsWith(str, prefix) ==
    Len(str) >= Len(prefix) /\ SubSeq(str, 1, Len(prefix)) = prefix

\* A variant that drops the configured client when the key fails the format test.
InitializeGroqClientClearing(old, api_key, reachable) ==
    LET given     == ~api_key.is_none /\ api_key.str # ""
        malformed == given /\ (~StartsWith(api_key.str, "gsk_") \/ Len(api_key.str) < 50)
        chosen    == IF given THEN Client(api_key.str)
                     ELSE IF GROQ_API_KEY THEN Client(EnvKey) ELSE NoClient
        validated == /\ ~malformed /\ ~chosen.is_none
                     /\ reachable /\ chosen.key \in {EnvKey, WorkingKey}
    IN  [client |-> IF validated THEN chosen ELSE NoClient,
         value |-> validated,
         validated |-> validated,
         requests |-> IF malformed \/ chosen.is_none THEN 0 ELSE 1]

\* initialize_groq_client(api_key) with the global client being old: the new
\* client, the value returned, whether the validation request succeeded and
\* how many requests were made.  The request succeeds when the service can
\* be reached and accepts the key.
InitializeGroqClient(old, api_key, reachable) ==
    LET given     == ~api_key.is_none /\ api_key.str # ""
        malformed == given /\ (~StartsWith(api_key.str, "gsk_") \/ Len(api_key.str) < 50)
        chosen    == IF given THEN Client(api_key.str)
                     ELSE IF GROQ_API_KEY THEN Client(EnvKey) ELSE NoClient
        validated == /\ ~malformed /\ ~chosen.is_none
                     /\ reachable /\ chosen.key \in {EnvKey, WorkingKey}
    IN  [client |-> IF malformed THEN old ELSE IF validated THEN chosen ELSE NoClient,
         value |-> validated,
         validated |-> validated,
         requests |-> IF malformed \/ chosen.is_none THEN 0 ELSE 1]

\* The canned replies, by their headings.
CannedReplies ==
    [summary |-> "**Resume Summary**",
     skill_gap |-> "**Skill Gap Analysis**",
     roadmap |-> "**Personalized Career Roadmap**",
     learning_plan |-> "**Personalized Skill Learning Plan**",
     salary |-> "**Salary Expectations & Negotiation Guide**",
     interview |-> "**Interview Preparation Plan**",
     default |-> "**Personalized Career Advice**"]

\* A variant that matches the prompt as typed, without lower-casing it.
GetDemoResponseCaseSensitive(prompt) ==
    LET prompt_lower == prompt
    IN  IF Contains(prompt_lower, "summary") \/ Contains(prompt_lower, "highlighting skills")
          THEN CannedReplies.summary
        ELSE IF Contains(prompt_lower, "skill gap") \/ Contains(prompt_lower, "missing certifications")
          THEN CannedReplies.skill_gap
        ELSE IF \/ Contains(prompt_lower, "roadmap") \/ Contains(prompt_lower, "6-month")
                \/ Contains(prompt_lower, "1-year")
          THEN CannedReplies.roadmap
        ELSE IF Contains(prompt_lower, "plan") /\ Contains(prompt_lower, "learn")
          THEN CannedReplies.learning_plan
        ELSE IF Contains(prompt_lower, "salary") \/ Contains(prompt_lower, "expectation")
          THEN CannedReplies.salary
        ELSE IF Contains(prompt_lower, "interview") \/ Contains(prompt_lower, "prepare")
          THEN CannedReplies.interview
        ELSE CannedReplies.default

\* get_demo_response(prompt)
GetDemoResponse(prompt) ==
    LET prompt_lower == StrLower(prompt)
    IN  IF Contains(prompt_lower, "summary") \/ Contains(prompt_lower, "highlighting skills")
          THEN CannedReplies.summary
        ELSE IF Contains(prompt_lower, "skill gap") \/ Contains(prompt_lower, "missing certifications")
          THEN CannedReplies.skill_gap
        ELSE IF \/ Contains(prompt_lower, "roadmap") \/ Contains(prompt_lower, "6-month")
                \/ Contains(prompt_lower, "1-year")
          THEN CannedReplies.roadmap
        ELSE IF Contains(prompt_lower, "plan") /\ Contains(prompt_lower, "learn")
          THEN CannedReplies.learning_plan
        ELSE IF Contains(prompt_lower, "salary") \/ Contains(prompt_lower, "expectation")
          THEN CannedReplies.salary
        ELSE IF Contains(prompt_lower, "interview") \/ Contains(prompt_lower, "prepare")
          THEN CannedReplies.interview
        ELSE CannedReplies.default

ApiKeyRequired == "**API Key Required**"
InvalidApiKey == "**Invalid API Key**"

\* What the generation request of ask_groq comes to: the content generated,
\* or the message of the exception raised.
ServiceOutcomes ==
    { [ok |-> TRUE, text |-> "You can expect a mid-level salary."],
      [ok |-> FALSE, text |-> "Error code: 401 - invalid_api_key"],
      [ok |-> FALSE, text |-> "Connection error."] }

\* A variant that looks for the client before it looks at the demo flag.
AskGroqClientFirst(h, prompt, outcome) ==
    IF h.client.is_none
      THEN [value |-> ApiKeyRequired, requests |-> 0, raised |-> FALSE]
    ELSE IF h.demo_mode
      THEN [value |-> GetDemoResponse(prompt), requests |-> 0, raised |-> FALSE]
    ELSE IF outcome.ok
      THEN [value |-> StrStrip(outcome.text), requests |-> 1, raised |-> FALSE]
    ELSE IF Contains(outcome.text, "401") \/ Contains(outcome.text, "invalid_api_key")
      THEN [value |-> InvalidApiKey, requests |-> 1, raised |-> FALSE]
    ELSE [value |-> "**API Error**: " \o outcome.text, requests |-> 1, raised |-> FALSE]

\* ask_groq(prompt) with the helper state h; outcome is what the generation
\* request would come to if it is made.
AskGroq(h, prompt, outcome) ==
    IF h.demo_mode
      THEN [value |-> GetDemoResponse(prompt), requests |-> 0, raised |-> FALSE]
    ELSE IF h.client.is_none
      THEN [value |-> ApiKeyRequired, requests |-> 0, raised |-> FALSE]
    ELSE IF outcome.ok
      THEN [value |-> StrStrip(outcome.text), requests |-> 1, raised |-> FALSE]
    ELSE IF Contains(outcome.text, "401") \/ Contains(outcome.text, "invalid_api_key")
      THEN [value |-> InvalidApiKey, requests |-> 1, raised |-> FALSE]
    ELSE [value |-> "**API Error**: " \o outcome.text, requests |-> 1, raised |-> FALSE]

\* The questions of the chat pages: the four quick questions.
Questions ==
    { "What should be my salary expectations based on my profile?",
      "Give me a detailed plan for learning new skills",
      "How should I prepare for my next technical interview?",
      "What are the best career growth opportunities for me?" }

\* Prompts given to get_demo_response directly: the four of test_demo.py and
\* prompts in other letter case or matching several rules.
DemoPrompts ==
    Questions \cup
    { "What Salary can I expect?", "SUMMARY of my profile, please",
      "Plan to learn salary negotiation", "Prepare a roadmap for my interview",
      "Identify each Skill Gap before the interview", "" }

\* Resumes of the sessions: one says 'Summary' at its start, one only after
\* its first 1000 characters.
PageResumes ==
    Resumes \cup
    { << "Professional Summary: sales lead, 6 years in retail" >>,
      << Repeat("0123456789", 100), " summary of hobbies: chess" >> }

\* The prompt the chat pages give to ask_groq.
PagePrompt(resume, question) ==
    (("As a career advisor, based on this resume: " \o StrTake(Flat(resume), PageResumeChars))
        \o ", please answer: ") \o question

\* test_demo.py: get_demo_response(prompt) on a prompt; the script runs on
\* its own, with no page of a session having run.
TestDemoResponse(prompt) ==
    /\ call.pc = "idle"
    /\ chat_history = <<>>
    /\ ret' = [op |-> "get_demo_response", prompt |-> prompt,
               value |-> GetDemoResponse(prompt)]
    /\ UNCHANGED <<indexVars, sessionVars>>

\* The chat input of test_app.py (the quick questions and the chat input of
\* app_clean.py): the question is appended, ask_groq is called with the page
\* prompt and its reply is appended.
AskCareerQuestion(question, outcome) ==
    /\ call.pc = "idle"
    /\ Truthy(resume_text)
    /\ Len(chat_history) < 2 * MaxTurns
    /\ (helper.demo_mode \/ helper.client.is_none) => outcome.ok   \* no request: nothing to fail
    /\ LET prompt == PagePrompt(resume_text.text, question)
           r      == AskGroq(helper, prompt, outcome)
       IN  /\ ret' = [op |-> "ask_groq", prompt |-> prompt, question |-> question,
                      value |-> r.value, requests |-> r.requests, raised |-> r.raised]
           /\ chat_history' =
                 IF r.raised
                   THEN Append(chat_history, [role |-> "user", content |-> question])
                   ELSE chat_history \o << [role |-> "user", content |-> question],
                                           [role |-> "assistant", content |-> r.value] >>
    /\ UNCHANGED <<indexVars, resume_text, call, helper>>

\* test_app.py, the demo mode checkbox was flipped.
ToggleDemoMode ==
    /\ call.pc = "idle"
    /\ helper' = [helper EXCEPT !.demo_mode = ~@, !.api_key_set = ~helper.demo_mode]
    /\ ret' = NoRet
    /\ UNCHANGED <<indexVars, resume_text, chat_history, call>>

\* test_app.py, 'Set API Key' pressed with a key typed in (the input is
\* shown outside demo mode only).
SetApiKey(api_key, reachable) ==
    /\ call.pc = "idle"
    /\ ~helper.demo_mode
    /\ ~api_key.is_none /\ api_key.str # ""
    /\ LET r == InitializeGroqClient(helper.client, api_key, reachable)
       IN  /\ helper' = [helper EXCEPT !.client = r.client,
                                       !.api_key_set = IF r.value THEN TRUE ELSE @]
           /\ ret' = [op |-> "initialize_groq_client", api_key |-> api_key,
                      value |-> r.value, validated |-> r.validated, requests |-> r.requests]
    /\ UNCHANGED <<indexVars, resume_text, chat_history, call>>

\* A session of test_app.py with a resume uploaded; helper.py was imported,
\* which called initialize_groq_client() when GROQ_API_KEY was set.
InitHelper ==
    /\ files = [p \in Paths |-> [readable |-> TRUE, nrows |-> SmallRows]]
    /\ data_sources = <<JobsCsv>>
    /\ GROQ_API_KEY \in BOOLEAN
    /\ store = EmptyStore
    /\ eng = [e \in Engines |-> Down]
    /\ ret = NoRet
    /\ resume_text \in { Text(r) : r \in PageResumes }
    /\ chat_history = <<>>
    /\ call = Idle
    /\ helper \in { [HelperStart EXCEPT !.client =
                        InitializeGroqClient(NoClient, NoKey, reachable).client] :
                    reachable \in BOOLEAN }

\* The chat page with the client the import left: questions in and out of
\* demo mode, and test_demo.py's direct calls.
NextDemo ==
    \/ \E prompt \in DemoPrompts : TestDemoResponse(prompt)
    \/ \E question \in Questions, outcome \in ServiceOutcomes :
          AskCareerQuestion(question, outcome)
    \/ ToggleDemoMode

SpecDemo == InitHelper /\ [][NextDemo]_vars

\* The sidebar: keys set one after another, demo mode switched on and off.
NextKey ==
    \/ ToggleDemoMode
    \/ \E api_key \in SidebarKeys, reachable \in BOOLEAN : SetApiKey(api_key, reachable)

SpecKey == InitHelper /\ [][NextKey]_vars

\* ================================================================ claims

\* C1: index bootstrap is idempotent across process starts: an
\* initialisation that finds 'job_database' in the store reuses it and leaves
\* the store as it is; an engine that reused the collection is ready, has
\* made no insert and has not read the dataset; and the entries change only
\* by an insert of an engine that is building the collection itself.
C1_BootstrapIdempotent ==
    /\ [](\A e \in Engines :
            eng[e].found => /\ eng[e].pc = "ready"
                            /\ eng[e].nAdds = 0
                            /\ eng[e].nReads = 0
                            /\ eng[e].jobs_df.is_none)
    /\ [][/\ \A e \in Engines :
               (eng[e].pc = "init" /\ store.exists /\ eng'[e].pc \notin {"init", "down"})
                  => (eng'[e].found /\ eng'[e].collection = "job_database"
                      /\ store' = store)
          /\ (store'.entries # store.entries)
               => \E e \in Engines : ~eng[e].found /\ eng'[e].nAdds = eng[e].nAdds + 1
         ]_vars

\* C1 witness: an engine started on a populated store and reused it.
C1_Witness ==
    \E e \in Engines : eng[e].found /\ eng[e].pc = "ready" /\ Len(store.entries) > 0

\* C2: whenever an engine has finished initialising (and no other engine is
\* at work on the store), the collection holds exactly one entry per row of
\* the combined dataset.
C2_IndexCompleteWhenReady ==
    \A e \in Engines :
       (eng[e].pc = "ready" /\ \A o \in Engines \ {e} : eng[o].pc = "down")
          => /\ ~Dataset.raised
             /\ Len(store.entries) = Len(Dataset.rows)
             /\ \A k \in DOMAIN store.entries : store.entries[k].id = JobId(k - 1)

\* C3: search_relevant_jobs returns one result per neighbour of the index's
\* response, result i built from metadata i and distance i, nothing merged or
\* reordered, and relevance_score is non-increasing with rank.
C3_ResultsFollowIndexOrder ==
    ret.op = "search" =>
       /\ Len(ret.value) = Len(ret.results.metadatas)
       /\ \A r \in DOMAIN ret.value :
             /\ ret.value[r].job_title = ret.results.metadatas[r].job_title
             /\ ret.value[r].skills = ret.results.metadatas[r].skills
             /\ ret.value[r].experience = ret.results.metadatas[r].experience
             /\ ret.value[r].role_category = ret.results.metadatas[r].role_category
             /\ ret.value[r].industry = ret.results.metadatas[r].industry
             /\ ret.value[r].salary = ret.results.metadatas[r].salary
             /\ ret.value[r].relevance_score = One - ret.results.distances[r]
       /\ \A r1, r2 \in DOMAIN ret.value :
             r1 < r2 => ret.value[r1].relevance_score >= ret.value[r2].relevance_score

\* C3 witness: a result list with two entries of one job title and with two
\* different scores.
C3_Witness ==
    /\ ret.op = "search"
    /\ \E r1, r2 \in DOMAIN ret.value :
          r1 < r2 /\ ret.value[r1].job_title = ret.value[r2].job_title
    /\ \E r1, r2 \in DOMAIN ret.value :
          ret.value[r1].relevance_score > ret.value[r2].relevance_score

\* C4: every relevance_score returned by search_relevant_jobs lies in [0, 1].
C4_ScoreInUnitInterval ==
    ret.op = "search" =>
       \A r \in DOMAIN ret.value :
          0 <= ret.value[r].relevance_score /\ ret.value[r].relevance_score <= One

\* C5: search_relevant_jobs(query, n) returns at most n results, and fewer
\* than n exactly when the index holds fewer than n entries, and then all.
C5_AtMostNFewerIffSmallIndex ==
    ret.op = "search" =>
       /\ Len(ret.value) <= ret.n_results
       /\ (Len(ret.value) < ret.n_results) <=> (Len(store.entries) < ret.n_results)
       /\ (Len(store.entries) < ret.n_results) => Len(ret.value) = Len(store.entries)

\* C5 witness: a search on a non-empty index smaller than n.
C5_Witness ==
    /\ ret.op = "search"
    /\ 0 < Len(ret.value)
    /\ Len(ret.value) < ret.n_results

\* C6: the transcript built by chat_with_career_advisor consists of exactly
\* the last min(L, 5) entries of chat_history, in their order, each with the
\* speaker label of its role; no earlier entry appears.
C6_TranscriptIsLastFive ==
    call.has_conversation =>
       LET L == Len(chat_history)
           m == IF L < 5 THEN L ELSE 5
       IN  /\ Len(call.conversation) = m
           /\ \A k \in 1..m :
                 /\ call.conversation[k].content = chat_history[L - m + k].content
                 /\ call.conversation[k].speaker =
                       (IF chat_history[L - m + k].role = "user" THEN "User" ELSE "Assistant")

\* C6 witness: a transcript built from a history of more than five entries,
\* with both speakers in it.
C6_Witness ==
    /\ call.has_conversation
    /\ Len(chat_history) > 5
    /\ \E k \in DOMAIN call.conversation : call.conversation[k].speaker = "User"
    /\ \E k \in DOMAIN call.conversation : call.conversation[k].speaker = "Assistant"

\* C7: no step of get_career_insights or chat_with_career_advisor, returning
\* or raising, changes chat_history; only the caller's steps do.
C7_EngineLeavesHistoryAlone ==
    [][call.pc \in {"skills", "search", "insights", "conversation", "chatgen"}
          => chat_history' = chat_history]_vars

\* C7 witness: a chat call that returned on a history longer than the window.
C7_Witness ==
    /\ call.pc = "returned"
    /\ call.op = "chat"
    /\ Len(chat_history) > HistoryWindow

\* C8: a generation failure during get_career_insights does not raise: the
\* call returns a dict whose 'relevant_jobs' is the retrieved list.
C8_InsightsFailureIsReturned ==
    (call.op = "insights" /\ call.failed_at # "none") =>
       /\ call.pc = "returned"
       /\ ~ret.raised
       /\ ret.value.relevant_jobs = call.relevant_jobs

\* C9: chat_with_career_advisor always returns a text: no failure of one of
\* its three generation calls reaches the caller as an exception.
C9_ChatNeverRaises ==
    call.op = "chat" => (call.pc # "raised" /\ (ret.op = "chat" => ~ret.raised))

\* C10: when the build is given no postings (no source loads, or the loaded
\* sources hold no row), it fails and no 'job_database' collection exists.
C10_NoCollectionWithoutPostings ==
    (Dataset.raised \/ Dataset.rows = <<>>) =>
       /\ ~store.exists
       /\ \A e \in Engines : eng[e].pc \notin {"batch", "ready"}

\* C11: a query against an empty index never returns a result list (it
\* fails with the dedicated InvalidQuery error instead).
C11_NoResultListFromEmptyIndex ==
    ret.op = "search" => Len(store.entries) > 0

\* C12: nothing serialises get_collection / create_collection / the batch
\* inserts: whenever one engine is in the middle of its build (the
\* collection exists and does not yet hold every row), another engine that
\* initialises can at once finish its initialisation on that collection.
C12_InitNotSerialised ==
    \A e \in Engines : \A o \in Engines \ {e} :
       (/\ eng[e].pc = "init"
        /\ eng[o].pc = "batch"
        /\ Len(store.entries) < Len(eng[o].jobs_df.rows))
          => ENABLED (InitializeVectorStore(e) /\ eng'[e].pc = "ready")

\* C12 witness: one engine has completed initialisation and can serve
\* queries while the other is still inserting and rows are missing.
C12_Witness ==
    \E e \in Engines : \E o \in Engines \ {e} :
       /\ eng[e].pc = "ready"
       /\ eng[e].found
       /\ eng[o].pc = "batch"
       /\ ~Dataset.raised
       /\ Len(store.entries) < Len(Dataset.rows)

\* C13: every chat_with_career_advisor turn that has ended made, in this
\* order, the skills-extraction generation call, one retrieval, the insights
\* generation call and the chat generation call: three generation calls and
\* one retrieval.  The turn's record starts empty, so nothing of an earlier
\* turn is counted.
C13_TurnMakesThreeGenerationsOneRetrieval ==
    (call.op = "chat" /\ call.pc \in {"returned", "raised"})
       => call.steps = <<"skills", "search", "insights", "chat">>

\* The turns that return did make exactly those four calls in that order.
ReturnedTurnSteps ==
    (call.op = "chat" /\ call.pc = "returned")
       => call.steps = <<"skills", "search", "insights", "chat">>

\* C14: search_relevant_jobs, get_career_insights and chat_with_career_advisor
\* are stateless: no step of any of these calls changes the collection's
\* entries or the engine's fields (collection, jobs_df, data_sources,
\* clients), and the files and the key they were built from stay as they are.
C14_CallsAreStateless ==
    [][(call.pc # "idle" \/ call'.pc # "idle" \/ ret'.op = "search")
         => /\ store' = store
            /\ eng' = eng
            /\ data_sources' = data_sources
            /\ files' = files
            /\ GROQ_API_KEY' = GROQ_API_KEY]_vars

\* A chat turn has returned after earlier turns, over a full index.
C14_Witness ==
    /\ call.op = "chat" /\ call.pc = "returned"
    /\ Len(chat_history) >= 3
    /\ eng[SessionEngine].collection = "job_database"
    /\ Len(store.entries) = Len(Dataset.rows)

\* C15: get_career_insights asks the retriever for exactly 15 postings and
\* returns all that were retrieved, in rank order, as 'relevant_jobs'; the job
\* context block of the insights prompt is made from exactly the first
\* min(10, retrieved) of them in rank order, and the chat prompt lists exactly
\* the first min(5, retrieved) of them.
C15_TopFifteenTenFive ==
    LET jobs == call.relevant_jobs
        n    == Len(jobs)
    IN  /\ ("search" \in { call.steps[k] : k \in DOMAIN call.steps })
             => /\ call.requested = 15
                /\ n = Min(15, Len(store.entries))
                /\ \A k \in 1..(n - 1) :
                      jobs[k].relevance_score >= jobs[k + 1].relevance_score
        /\ (ret.op = "insights" /\ ~ret.raised)
             => ret.value.relevant_jobs = jobs
        /\ (call.insights_prompt.template = "insights")
             => LET ctx == call.insights_prompt.jobs_context
                IN  /\ Len(ctx) = Min(10, n)
                    /\ \A k \in DOMAIN ctx :
                          /\ ctx[k].job_title = jobs[k].job_title
                          /\ ctx[k].skills = jobs[k].skills
                          /\ ctx[k].experience = jobs[k].experience
                          /\ ctx[k].industry = jobs[k].industry
        /\ (call.chat_prompt.template = "chat")
             => LET listed == call.chat_prompt.jobs
                IN  /\ Len(listed) = Min(5, n)
                    /\ \A k \in DOMAIN listed :
                          listed[k].job_title = jobs[k].job_title

\* A chat prompt was sent after fifteen postings were retrieved: ten of them
\* are in the context block and five are listed.
C15_Witness ==
    /\ call.chat_prompt.template = "chat"
    /\ Len(call.relevant_jobs) = 15
    /\ Len(call.insights_prompt.jobs_context) = 10
    /\ Len(call.chat_prompt.jobs) = 5

\* The small index: fewer than five postings were retrieved and all are listed.
C15_WitnessSmallIndex ==
    /\ call.chat_prompt.template = "chat"
    /\ Len(call.relevant_jobs) = 4
    /\ Len(call.chat_prompt.jobs) = 4

\* C16: the dataset loader fails if and only if no listed source could be
\* loaded (a .csv location whose file can be read); otherwise the table it
\* returns holds the rows of exactly the sources that loaded, in source
\* order and in file order, each row tagged with its source location; the
\* sources that could not be loaded are skipped and no source file changes.
C16_LoaderFailsIffNothingLoaded ==
    /\ [](\A e \in Engines :
            LET loaded == { k \in 1..Len(data_sources) :
                              /\ data_sources[k][2] = ".csv"
                              /\ files[data_sources[k]].readable }
                rows   == eng[e].jobs_df.rows
                Pos(s) == CHOOSE k \in 1..Len(data_sources) : data_sources[k] = s
            IN  /\ (eng[e].nReads > 0 \/ eng[e].error = "ValueError")
                     => ((eng[e].error = "ValueError") <=> (loaded = {}))
                /\ ~eng[e].jobs_df.is_none
                     => /\ loaded # {}
                        /\ \A k \in 1..Len(rows) :
                              \E p \in loaded : rows[k].source_file = data_sources[p]
                        /\ \A k \in 1..(Len(rows) - 1) :
                              Pos(rows[k].source_file) <= Pos(rows[k + 1].source_file)
                        /\ \A p \in loaded :
                              LET s   == data_sources[p]
                                  sub == SelectSeq(rows, LAMBDA r : r.source_file = s)
                              IN  /\ Len(sub) = files[s].nrows
                                  /\ \A i \in 1..Len(sub) : sub[i].posting = RowAt(s, i - 1))
    /\ [][files' = files]_vars

\* A table was loaded although one of two listed sources could not be read.
C16_Witness ==
    \E e \in Engines :
       /\ ~eng[e].jobs_df.is_none
       /\ Len(eng[e].jobs_df.rows) > 0
       /\ data_sources = <<JobsCsv, ExtraCsv>>
       /\ ~files[ExtraCsv].readable

\* C17: a build over a dataset of N rows inserts every row exactly once, in
\* row order, in consecutive batches of at most 100 rows: each insert appends
\* between 1 and 100 entries, a finished build made ceil(N/100) inserts and
\* left N entries, entry k comes from row k-1 and has the id 'job_' followed
\* by k-1, so no two entries share an id, whichever file their rows came from.
C17_EveryRowOnceInBatches ==
    /\ [](/\ \A k \in 1..Len(store.entries) : store.entries[k].id = <<"job_", k - 1>>
          /\ \A e \in Engines :
                (eng[e].pc = "batch" \/ (eng[e].pc = "ready" /\ ~eng[e].found))
                  => LET rows == eng[e].jobs_df.rows
                         N    == Len(rows)
                         done == Len(store.entries)
                     IN  /\ done = (IF eng[e].i < N THEN eng[e].i ELSE N)
                         /\ eng[e].nAdds = (done + 99) \div 100
                         /\ eng[e].pc = "ready" => done = N
                         /\ \A k \in 1..done :
                               LET m == store.entries[k].metadata
                                   p == rows[k].posting
                               IN  /\ m.job_title = p.title
                                   /\ m.skills = p.skills
                                   /\ m.experience = p.experience
                                   /\ m.salary = p.salary)
    /\ [][store'.entries # store.entries
            => /\ Len(store'.entries) - Len(store.entries) \in 1..100
               /\ SubSeq(store'.entries, 1, Len(store.entries)) = store.entries]_vars

\* A build of 103 rows from two files has finished with two inserts.
C17_Witness ==
    \E e \in Engines :
       /\ eng[e].pc = "ready" /\ ~eng[e].found
       /\ eng[e].nAdds = 2
       /\ Len(store.entries) = 103
       /\ eng[e].jobs_df.rows[1].source_file # eng[e].jobs_df.rows[103].source_file

\* str.strip() of a text held as fragments, a blank being the fragment " ".
Strip(text) ==
    LET inked == { k \in DOMAIN text : text[k] # " " }
    IN  IF inked = {} THEN <<>>
        ELSE SubSeq(text, Least(inked), CHOOSE k \in inked : \A j \in inked : j <= k)

\* C18: search_relevant_jobs trims its query before delegating to the index:
\* the text given to the index is the query without its leading and trailing
\* whitespace, so a query and the same query padded with blanks send the same
\* text.
C18_QueryIsTrimmed ==
    ret.op = "search" => ret.query_texts = << Strip(ret.query) >>

\* The first 2000 characters of a text.
First2000(text) ==
    IF Len(Flat(text)) <= 2000 THEN Flat(text) ELSE SubSeq(Flat(text), 1, 2000)

\* C19: what get_career_insights sends to the generation service depends on
\* the resume only through its first 2000 characters: the extraction prompt
\* carries exactly those characters, so it is the prompt every resume with
\* the same first 2000 characters produces; and the insights prompt consists
\* of the extracted summary, the job context and the user query, with no
\* resume text in it.
C19_OnlyFirst2000CharsOfResume ==
    /\ call.skills_prompt.template = "skills"
         => /\ DOMAIN call.skills_prompt = {"template", "resume"}
            /\ Flat(call.skills_prompt.resume) = First2000(resume_text.text)
            /\ \A other \in Resumes \cup LongResumes :
                  First2000(other) = First2000(resume_text.text)
                    => call.skills_prompt = SkillsPrompt(other)
    /\ call.insights_prompt.template = "insights"
         => /\ DOMAIN call.insights_prompt =
                  {"template", "resume_analysis", "jobs_context", "user_query"}
            /\ call.insights_prompt.resume_analysis = call.skills_analysis
            /\ call.insights_prompt.resume_analysis \in SkillsAnswers
            /\ call.insights_prompt.user_query \in
                  {<<"General career guidance">>} \cup Messages
            /\ \A k \in DOMAIN call.insights_prompt.jobs_context :
                  DOMAIN call.insights_prompt.jobs_context[k] =
                     {"job_title", "skills", "experience", "industry"}

\* Both prompts of one call were sent for a resume longer than 2000 characters.
C19_Witness ==
    /\ call.skills_prompt.template = "skills"
    /\ call.insights_prompt.template = "insights"
    /\ Len(Flat(resume_text.text)) > 2000

\* C20: document encoding is deterministic: the document stored for a
\* posting is the fixed template filled with its seven field values (title,
\* skills, experience, role category, functional area, industry, salary) and
\* nothing else, so rows with identical field values have identical
\* documents whatever their row index, batch or source file.
C20_DocumentDependsOnSevenFields ==
    \A e \in Engines :
       (eng[e].pc = "batch" \/ (eng[e].pc = "ready" /\ ~eng[e].found))
         => LET rows  == eng[e].jobs_df.rows
                done  == Len(store.entries)
                pairs == { <<rows[k].posting, store.entries[k].document>> : k \in 1..done }
            IN  /\ \A a, b \in pairs : a[1] = b[1] => a[2] = b[2]
                /\ \A k \in 1..done :
                      LET d == store.entries[k].document
                          p == rows[k].posting
                      IN  /\ Len(d) = 14
                          /\ d[2] = p.title /\ d[4] = p.skills /\ d[6] = p.experience
                          /\ d[8] = p.role /\ d[10] = p.farea /\ d[12] = p.industry
                          /\ d[14] = p.salary
                          /\ \A i \in {1, 3, 5, 7, 9, 11, 13} : d[i] = store.entries[1].document[i]

\* Two rows with the same field values were stored from different source
\* files and in different batches.
C20_Witness ==
    \E e \in Engines :
       /\ eng[e].pc = "ready" /\ ~eng[e].found
       /\ Len(store.entries) = Len(eng[e].jobs_df.rows)
       /\ \E j \in 1..100 : \E k \in 101..Len(store.entries) :
             /\ eng[e].jobs_df.rows[j].posting = eng[e].jobs_df.rows[k].posting
             /\ eng[e].jobs_df.rows[j].source_file # eng[e].jobs_df.rows[k].source_file

\* C21: for every skills string _extract_skills returns, in the order they
\* occur, the stretches between the separators '|', ',' and ';' that hold
\* more than whitespace, each trimmed and lower-cased; a missing value gives
\* the empty list; and no returned token is empty, begins or ends with
\* whitespace, or contains a separator.
C21_SkillsSplitTrimLower ==
    ret.op = "extract_skills" =>
       LET str  == ret.arg.str
           out  == ret.value
           seps == {"|", ",", ";"}
           stretches ==
              { st \in (1..Len(str)) \X (1..Len(str)) :
                  /\ st[1] <= st[2]
                  /\ \A i \in st[1]..st[2] : Char(str, i) \notin seps
                  /\ st[1] = 1 \/ Char(str, st[1] - 1) \in seps
                  /\ st[2] = Len(str) \/ Char(str, st[2] + 1) \in seps
                  /\ \E i \in st[1]..st[2] : Char(str, i) \notin {" ", "\t", "\n"} }
       IN  /\ ret.arg.is_na => out = <<>>
           /\ ~ret.arg.is_na =>
                 /\ Len(out) = Cardinality(stretches)
                 /\ \A st \in stretches :
                       out[Cardinality({ t \in stretches : t[1] < st[1] }) + 1]
                          = StrLower(StrStrip(SubSeq(str, st[1], st[2])))
           /\ \A k \in 1..Len(out) :
                 /\ Len(out[k]) > 0
                 /\ Char(out[k], 1) \notin {" ", "\t", "\n"}
                 /\ Char(out[k], Len(out[k])) \notin {" ", "\t", "\n"}
                 /\ \A i \in 1..Len(out[k]) :
                       /\ Char(out[k], i) \notin seps
                       /\ Char(out[k], i) \notin
                             {"A", "B", "C", "D", "E", "F", "G", "H", "I", "J", "K", "L", "M",
                              "N", "O", "P", "Q", "R", "S", "T", "U", "V", "W", "X", "Y", "Z"}

\* A string with mixed case, padded tokens, repeated and trailing separators.
C21_Witness ==
    /\ ret.op = "extract_skills"
    /\ ret.arg = Cell("Python| Django ,, REST API;")
    /\ ret.value = <<"python", "django", "rest api">>

\* What the salary and experience cells of the rows are worth: none, or the
\* number (a single number, or the floor of the mean of the numbers).
C22_Expected(str) ==
    CASE str = "3,00,000 - 5,00,000" -> Number(400000)
      [] str = "50000" -> Number(50000)
      [] str = "1,50,000 - 2,25,000 - 3,00,001 PA." -> Number(225000)
      [] str = "2 - 5 yrs" -> Number(3)
      [] str = "1 - 3 yrs" -> Number(2)
      [] str = "5 - 10 yrs" -> Number(7)
      [] str = "0 - 2 yrs" -> Number(1)
      [] str = "3 yrs" -> Number(3)
      [] str = "1 - 2 - 4 yrs" -> Number(2)
      [] OTHER -> NoNumber

\* C22: a per-row anomaly never fails the load: for every salary or
\* experience value, missing, 'Not Disclosed', without digits or with a
\* group that does not parse, _extract_salary and _extract_experience return
\* None and do not raise, so preprocessing completes and fills its three
\* columns for every table; when the numbers parse the result is the single
\* number, or the floor of the mean of all numbers found.
C22_AnomaliesBecomeNone ==
    /\ ret.op \in {"extract_salary", "extract_experience"} =>
          /\ ~ret.raised
          /\ ret.arg.is_na => ret.value.is_none
          /\ (\A i \in 1..Len(ret.arg.str) : Char(ret.arg.str, i) \notin DigitChars)
                => ret.value.is_none
          /\ ~ret.arg.is_na => ret.value = C22_Expected(ret.arg.str)
    /\ ret.op = "preprocess" =>
          /\ ~ret.raised
          /\ Len(ret.salary_clean) = Len(ret.jobs_df)
          /\ Len(ret.experience_years) = Len(ret.jobs_df)
          /\ Len(ret.skills_list) = Len(ret.jobs_df)
          /\ \A k \in DOMAIN ret.jobs_df :
                /\ ret.jobs_df[k].salary.is_na => ret.salary_clean[k].is_none
                /\ ~ret.jobs_df[k].salary.is_na =>
                      ret.salary_clean[k] = C22_Expected(ret.jobs_df[k].salary.str)
                /\ ~ret.jobs_df[k].experience.is_na =>
                      ret.experience_years[k] = C22_Expected(ret.jobs_df[k].experience.str)

\* A table whose second row has a salary group of commas only was
\* preprocessed: that cell is None and the range before it is averaged.
C22_Witness ==
    /\ ret.op = "preprocess" /\ ~ret.raised
    /\ Len(ret.jobs_df) = 2
    /\ ret.jobs_df[1].salary = Cell("1,50,000 - 2,25,000 - 3,00,001 PA.")
    /\ ret.jobs_df[2].salary = Cell("5 Lacs, negotiable")
    /\ ret.salary_clean = << Number(225000), NoNumber >>

C24_Expected(prompt) ==
    CASE prompt = "What should be my salary expectations based on my profile?"
              -> "**Salary Expectations & Negotiation Guide**"
      [] prompt = "Give me a detailed plan for learning new skills"
              -> "**Personalized Skill Learning Plan**"
      [] prompt = "How should I prepare for my next technical interview?"
              -> "**Interview Preparation Plan**"
      [] prompt = "What are the best career growth opportunities for me?"
              -> "**Personalized Career Advice**"
      [] prompt = "What Salary can I expect?"
              -> "**Salary Expectations & Negotiation Guide**"
      [] prompt = "SUMMARY of my profile, please" -> "**Resume Summary**"
      [] prompt = "Plan to learn salary negotiation"
              -> "**Personalized Skill Learning Plan**"
      [] prompt = "Prepare a roadmap for my interview"
              -> "**Personalized Career Roadmap**"
      [] prompt = "Identify each Skill Gap before the interview"
              -> "**Skill Gap Analysis**"
      [] prompt = "" -> "**Personalized Career Advice**"

\* C24: get_demo_response is total and deterministic: every prompt gets
\* exactly one non-empty canned reply, the one of the first rule that matches
\* case-insensitively in the order summary, skill gap, roadmap, learning
\* plan, salary, interview, default; the four quick questions get the salary,
\* learning-plan, interview and default replies.
C24_FirstMatchingRule ==
    ret.op = "get_demo_response" =>
       /\ ret.value = C24_Expected(ret.prompt)
       /\ Len(ret.value) > 0
       /\ \E category \in DOMAIN CannedReplies : ret.value = CannedReplies[category]

\* A prompt that matches the learning-plan rule and the salary rule got the
\* learning-plan reply.
C24_Witness ==
    /\ ret.op = "get_demo_response"
    /\ ret.prompt = "Plan to learn salary negotiation"
    /\ ret.value = "**Personalized Skill Learning Plan**"

\* C25: ask_groq never raises and always returns a string, with a fixed
\* precedence: in demo mode it returns a canned reply and makes no request;
\* otherwise, with no client configured, it returns the API-key-required
\* notice and makes no request; otherwise it makes exactly one request and
\* returns the generated text or, when the request fails, a string that
\* describes the error.
C25_AskGroqPrecedence ==
    ret.op = "ask_groq" =>
       /\ ~ret.raised
       /\ Len(ret.value) >= 0
       /\ helper.demo_mode =>
             /\ ret.requests = 0
             /\ \E category \in DOMAIN CannedReplies : ret.value = CannedReplies[category]
       /\ (~helper.demo_mode /\ helper.client.is_none) =>
             /\ ret.requests = 0
             /\ ret.value = "**API Key Required**"
       /\ (~helper.demo_mode /\ ~helper.client.is_none) =>
             /\ ret.requests = 1
             /\ \/ ret.value = "You can expect a mid-level salary."
                \/ ret.value = "**Invalid API Key**"
                \/ ret.value = "**API Error**: Connection error."

\* Demo mode was on and no client was configured: the canned reply won.
C25_Witness ==
    /\ ret.op = "ask_groq"
    /\ helper.demo_mode /\ helper.client.is_none
    /\ ret.requests = 0
    /\ ret.value = "**Salary Expectations & Negotiation Guide**"

\* A request was made and failed: the error came back as text.
C25_WitnessFailure ==
    /\ ret.op = "ask_groq"
    /\ ~helper.demo_mode /\ ~helper.client.is_none
    /\ ret.value = "**API Error**: Connection error."

\* C26: in every sequence of initialize_groq_client calls, a call returns
\* True only if the global client is then set and its validation request
\* succeeded; a call with a malformed key (not starting with 'gsk_', or
\* shorter than 50 characters) returns False and leaves the client that was
\* configured before as it was; and a call whose validation request fails
\* returns False and leaves the client None, whatever client worked before.
C26_ClientAfterInitialize ==
    [][ret'.op = "initialize_groq_client" =>
         LET key       == ret'.api_key.str
             malformed == \/ Len(key) < 50
                          \/ Len(key) >= 4 /\ SubSeq(key, 1, 4) # "gsk_"
         IN  /\ ret'.value => /\ ~helper'.client.is_none
                              /\ helper'.client.key = key
                              /\ ret'.validated
             /\ malformed => /\ ~ret'.value
                             /\ ret'.requests = 0
                             /\ helper'.client = helper.client
             /\ (~malformed /\ ~ret'.validated) => /\ ~ret'.value
                                                   /\ helper'.client.is_none]_vars

\* A malformed key was refused while a client was configured, and that
\* client is still there.
C26_Witness ==
    /\ ret.op = "initialize_groq_client"
    /\ ret.api_key = Key("gsk_tooShort")
    /\ ~ret.value
    /\ ~helper.client.is_none

\* A well-formed key failed validation and no client is left.
C26_WitnessDiscarded ==
    /\ ret.op = "initialize_groq_client"
    /\ ret.api_key = Key(RevokedKey)
    /\ ~ret.value /\ ret.requests = 1
    /\ helper.client.is_none

C28_HistoryAlternates ==
    \A k \in 1..(Len(chat_history) - 1) :
        chat_history[k].role = "user" => chat_history[k + 1].role = "assistant"

\* C29: when the page has appended the new user message before calling
\* chat_with_career_advisor, the transcript in the chat prompt is made of the
\* last five entries that precede the new message, so the new message is in
\* the prompt only as the user question.
C29_TranscriptPrecedesNewMessage ==
    (call.op = "chat" /\ call.chat_prompt.template = "chat") =>
        call.chat_prompt.conversation =
            Conversation(SubSeq(chat_history, 1, Len(chat_history) - 1))

\* C30: in demo mode the canned reply shown for a chat question is the same
\* whatever the resume: the reply the page got equals the reply the same
\* question gets with every other resume text in the page prompt.
C30_DemoReplyIgnoresResume ==
    (ret.op = "ask_groq" /\ helper.demo_mode) =>
        \A other \in PageResumes :
            GetDemoResponse(PagePrompt(other, ret.question)) = ret.value

====
